---- MODULE Spec2Model ----
(***************************************************************************)
(* Model of src/includes/loader.cpp: the libbfd-based binary loader.       *)
(*                                                                         *)
(* load_binary -> load_binary_bfd -> open_bfd, load_symbols_bfd,           *)
(* load_dynsym_bfd, load_sections_bfd, bfd_close.                          *)
(*                                                                         *)
(* Every caller (thread) runs load_binary on its own Binary; the only      *)
(* state the callers share is open_bfd's function-local static             *)
(* bfd_init_flag and libbfd's global error state.  The flag is a plain     *)
(* int read and written without any synchronisation, so a read that races  *)
(* with another caller's write may return either value (ReadFlag).         *)
(*                                                                         *)
(* The source has a few misspelt identifiers (name for fname on line 155,  *)
(* bfd for bfd_h on line 161, bfd for bin on line 176); they are modelled  *)
(* as the identifiers they stand for.                                      *)
(***************************************************************************)
EXTENDS Integers, Sequences, FiniteSets, TLC

\* ------------------------------------------------------------- bounds
\* Number of concurrent callers of load_binary.
NumCallers == 2

\* Number of load_binary calls issued in one run of the process.
MaxCalls == 2

\* Longest raw symbol table a file holds.
MaxSyms == 2

\* Number of unload_binary calls a caller makes between two loads.
MaxUnloads == 2

Callers == 1 .. NumCallers

\* ------------------------------------------------------------- data model
\* Binary::BinaryType, the caller-declared type argument.
BinaryTypes == {"BIN_TYPE_AUTO", "BIN_TYPE_ELF", "BIN_TYPE_PE"}

\* A Binary as its constructor leaves it.
EmptyBinary ==
  [filename |-> "", entry |-> 0, type |-> "BIN_TYPE_AUTO", type_str |-> "",
   arch |-> "ARCH_NONE", arch_str |-> "", bits |-> 0,
   symbols |-> <<>>, sections |-> <<>>]

\* A Symbol as load_symbols_bfd builds it (lines 101-106).
Symbol(type, name, addr) == [type |-> type, name |-> name, addr |-> addr]

\* A Binary that an earlier load has filled in and the caller passes again.
UsedBinary ==
  [filename |-> "old.bin", entry |-> 4096, type |-> "BIN_TYPE_PE",
   type_str |-> "pei-i386", arch |-> "ARCH_X86", arch_str |-> "i386", bits |-> 32,
   symbols |-> << Symbol("SYM_TYPE_FUN", "old_start", 4096) >>,
   sections |-> << [name |-> ".old", vma |-> 4096, size |-> 16] >>]

InitBins == {EmptyBinary, UsedBinary}

\* Raw symbol-table entries (asymbol): name, value and flag word.
ASymbols ==
  { [name |-> "main", value |-> 4198400, flag |-> {"BSF_FUNCTION", "BSF_GLOBAL"}],
    [name |-> "helper", value |-> 4198464, flag |-> {"BSF_FUNCTION", "BSF_LOCAL"}],
    [name |-> "counter", value |-> 6295592, flag |-> {"BSF_OBJECT"}] }

\* All raw symbol tables of at most MaxSyms entries.
SymTabs == UNION { [1 .. k -> ASymbols] : k \in 0 .. MaxSyms }

\* bfd_h -> xvec -> name for a flavour and machine.
TargetName(flavour, mach) ==
  CASE flavour = "bfd_target_elf_flavour" /\ mach = "bfd_mach_x86_64" -> "elf64-x86-64"
    [] flavour = "bfd_target_elf_flavour" /\ mach = "bfd_mach_i386_i386" -> "elf32-i386"
    [] flavour = "bfd_target_elf_flavour" -> "elf32-littlearm"
    [] flavour = "bfd_target_coff_flavour" /\ mach = "bfd_mach_x86_64" -> "pei-x86-64"
    [] flavour = "bfd_target_coff_flavour" /\ mach = "bfd_mach_i386_i386" -> "pei-i386"
    [] flavour = "bfd_target_coff_flavour" -> "pei-arm-little"
    [] flavour = "bfd_target_aout_flavour" -> "a.out-i386"
    [] OTHER -> "binary"

\* bfd_info -> printable_name for a machine.
PrintableName(mach) ==
  CASE mach = "bfd_mach_i386_i386" -> "i386"
    [] mach = "bfd_mach_x86_64" -> "i386:x86-64"
    [] OTHER -> "arm"

\* bfd_get_start_address for a machine's usual image base.
StartAddress(mach) ==
  CASE mach = "bfd_mach_i386_i386" -> 134513696
    [] mach = "bfd_mach_x86_64" -> 4198432
    [] OTHER -> 32768

\* What libbfd answers for one file on disk.  sym is the outcome of the
\* symbol-table size query ("neg": error, "zero": no table, "pos": a table),
\* canon_ok whether decoding the table succeeds, symtab the decoded table;
\* dyn and sec are the outcomes of dynamic-symbol and section extraction.
File(openable, object, flavour, mach, sym, canon_ok, symtab, dyn, sec) ==
  [name |-> "a.out", openable |-> openable, object |-> object,
   flavour |-> flavour, mach |-> mach, start |-> StartAddress(mach),
   sym |-> sym, canon_ok |-> canon_ok, symtab |-> symtab, dyn |-> dyn, sec |-> sec]

DynCases == {"fail", "none", "one"}
SecCases == {"fail", "none", "one"}

\* Files that load_binary rejects before symbol extraction: the answers libbfd
\* is never asked for are fixed.
EarlyFiles ==
  { File(FALSE, FALSE, "bfd_target_unknown_flavour", "bfd_mach_arm", "neg", FALSE, <<>>, "fail", "fail"),
    File(TRUE, FALSE, "bfd_target_unknown_flavour", "bfd_mach_arm", "neg", FALSE, <<>>, "fail", "fail"),
    File(TRUE, TRUE, "bfd_target_unknown_flavour", "bfd_mach_arm", "neg", FALSE, <<>>, "fail", "fail"),
    File(TRUE, TRUE, "bfd_target_aout_flavour", "bfd_mach_i386_i386", "neg", FALSE, <<>>, "fail", "fail"),
    File(TRUE, TRUE, "bfd_target_elf_flavour", "bfd_mach_arm", "neg", FALSE, <<>>, "fail", "fail"),
    File(TRUE, TRUE, "bfd_target_coff_flavour", "bfd_mach_arm", "neg", FALSE, <<>>, "fail", "fail") }

\* The symbol-table answers of a file: size error, no table, undecodable
\* table, or a decoded table.
SymAnswers ==
  { <<"neg", FALSE, <<>> >>, <<"zero", FALSE, <<>> >>, <<"pos", FALSE, <<>> >> }
  \cup { <<"pos", TRUE, tab>> : tab \in SymTabs }

\* ELF and PE files of the supported machines.
X86Files ==
  { File(TRUE, TRUE, fl, m, s[1], s[2], s[3], d, c) :
      fl \in {"bfd_target_elf_flavour", "bfd_target_coff_flavour"},
      m \in {"bfd_mach_i386_i386", "bfd_mach_x86_64"},
      s \in SymAnswers, d \in DynCases, c \in SecCases }

Files == EarlyFiles \cup X86Files

\* One file per path through load_binary, for the runs with concurrent callers.
CoverFiles ==
  EarlyFiles \cup
  { File(TRUE, TRUE, "bfd_target_elf_flavour", "bfd_mach_x86_64", s[1], s[2], s[3], "none", c) :
      s \in { <<"neg", FALSE, <<>> >>, <<"zero", FALSE, <<>> >>, <<"pos", FALSE, <<>> >>,
              <<"pos", TRUE, << CHOOSE a \in ASymbols : a.name = "main" >> >> },
      c \in {"fail", "none"} }

\* The type arguments of the runs with concurrent callers: no expectation, and
\* an expectation that the files of CoverFiles do not meet.
CoverTypes == {"BIN_TYPE_AUTO", "BIN_TYPE_PE"}

\* ------------------------------------------------------------- state
VARIABLES
  bfd_init_flag,  \* open_bfd's static flag (line 17)
  init_calls,     \* number of bfd_init calls begun
  init_done,      \* number of bfd_init calls that have returned
  bfd_error,      \* libbfd's global error state (bfd_get_error / bfd_set_error)
  ncalls,         \* number of load_binary calls begun
  pc,             \* each caller's position in load_binary
  fname,          \* the file named by the fname argument
  type,           \* the type argument
  bin,            \* the caller's Binary
  bin0,           \* the caller's Binary as it was when load_binary was called
  bfd_h,          \* the handle variable of open_bfd / load_binary_bfd
  ret,            \* load_binary_bfd's ret
  n, nsyms, i, bfd_symtab, \* load_symbols_bfd's locals
  sym_ret,        \* load_symbols_bfd's return value
  dyn_ret,        \* load_dynsym_bfd's return value
  sec_ret,        \* load_sections_bfd's return value
  opened,         \* handles bfd_openr has returned in this call
  closed,         \* bfd_close calls of this call
  mallocs,        \* successful malloc calls of this call
  frees,          \* free calls of this call
  stale_error,    \* whether bfd_check_format left a stale error in this open_bfd call
  unloads,        \* unload_binary calls of each caller since its last load_binary call
  stages,         \* the stages this call has run, in order
  diag            \* the diagnostics this call has printed to stderr, in order

shared == <<bfd_init_flag, init_calls, init_done, bfd_error, ncalls>>
args == <<fname, type, bin0>>
symvars == <<n, nsyms, i, bfd_symtab, sym_ret, mallocs, frees>>
hvars == <<bfd_h, opened, closed>>
rets == <<ret, dyn_ret, sec_ret>>
vars == <<shared, pc, args, stale_error, unloads, bin, hvars, rets, symvars, stages, diag>>

Upd(f, t, v) == [f EXCEPT ![t] = v]

TypeOK ==
  /\ bfd_init_flag \in {0, 1}
  /\ init_calls \in Nat /\ init_done \in Nat /\ ncalls \in 0 .. MaxCalls
  /\ bfd_error \in {"bfd_error_no_error", "bfd_error_system_call",
                    "bfd_error_wrong_format", "bfd_error_file_not_recognized",
                    "bfd_error_no_symbols", "bfd_error_bad_value"}
  /\ \A t \in Callers :
       /\ fname[t] \in Files
       /\ type[t] \in BinaryTypes
       /\ bfd_h[t] \in {"NULL", "handle"}
       /\ ret[t] \in {0, -1}
       /\ bfd_symtab[t] \in {"NULL", "alloc"}

Init ==
  /\ bfd_init_flag = 0
  /\ init_calls = 0
  /\ init_done = 0
  /\ bfd_error = "bfd_error_no_error"
  /\ ncalls = 0
  /\ pc = [t \in Callers |-> "idle"]
  /\ fname = [t \in Callers |-> CHOOSE f \in EarlyFiles : ~f.openable]
  /\ type = [t \in Callers |-> "BIN_TYPE_AUTO"]
  /\ bin = [t \in Callers |-> EmptyBinary]
  /\ bin0 = [t \in Callers |-> EmptyBinary]
  /\ bfd_h = [t \in Callers |-> "NULL"]
  /\ ret = [t \in Callers |-> 0]
  /\ n = [t \in Callers |-> 0]
  /\ nsyms = [t \in Callers |-> 0]
  /\ i = [t \in Callers |-> 0]
  /\ bfd_symtab = [t \in Callers |-> "NULL"]
  /\ sym_ret = [t \in Callers |-> 0]
  /\ dyn_ret = [t \in Callers |-> 0]
  /\ sec_ret = [t \in Callers |-> 0]
  /\ opened = [t \in Callers |-> 0]
  /\ closed = [t \in Callers |-> 0]
  /\ mallocs = [t \in Callers |-> 0]
  /\ frees = [t \in Callers |-> 0]
  /\ stale_error = [t \in Callers |-> FALSE]
  /\ unloads = [t \in Callers |-> 0]
  /\ stages = [t \in Callers |-> <<>>]
  /\ diag = [t \in Callers |-> <<>>]

\* ------------------------------------------------------------- load_binary
\* load_binary(fname, bin, type): the caller passes a file, a Binary and a
\* type; load_binary_bfd starts with bfd_h = NULL (line 147) and calls open_bfd.
Call(t, F, T, B) ==
  /\ pc[t] = "idle"
  /\ ncalls < MaxCalls
  /\ \E f \in F, ty \in T, b \in B :
       /\ fname' = Upd(fname, t, f)
       /\ type' = Upd(type, t, ty)
       /\ bin' = Upd(bin, t, b)
       /\ bin0' = Upd(bin0, t, b)
  /\ ncalls' = ncalls + 1
  /\ bfd_h' = Upd(bfd_h, t, "NULL")
  /\ unloads' = Upd(unloads, t, 0)
  /\ pc' = Upd(pc, t, "init_check")
  /\ UNCHANGED <<bfd_init_flag, init_calls, init_done, bfd_error, opened, closed,
                 rets, symvars, stale_error, stages, diag>>

\* The caller has taken load_binary's result and its Binary; the locals of the
\* finished call and what was observed of it are gone.
Return(t) ==
  /\ pc[t] = "done"
  /\ pc' = Upd(pc, t, "idle")
  /\ fname' = Upd(fname, t, CHOOSE f \in EarlyFiles : ~f.openable)
  /\ type' = Upd(type, t, "BIN_TYPE_AUTO")
  /\ bin' = Upd(bin, t, EmptyBinary)
  /\ bin0' = Upd(bin0, t, EmptyBinary)
  /\ bfd_h' = Upd(bfd_h, t, "NULL")
  /\ opened' = Upd(opened, t, 0)
  /\ closed' = Upd(closed, t, 0)
  /\ ret' = Upd(ret, t, 0)
  /\ dyn_ret' = Upd(dyn_ret, t, 0)
  /\ sec_ret' = Upd(sec_ret, t, 0)
  /\ n' = Upd(n, t, 0)
  /\ nsyms' = Upd(nsyms, t, 0)
  /\ i' = Upd(i, t, 0)
  /\ bfd_symtab' = Upd(bfd_symtab, t, "NULL")
  /\ sym_ret' = Upd(sym_ret, t, 0)
  /\ mallocs' = Upd(mallocs, t, 0)
  /\ frees' = Upd(frees, t, 0)
  /\ stages' = Upd(stages, t, <<>>)
  /\ diag' = Upd(diag, t, <<>>)
  /\ stale_error' = Upd(stale_error, t, FALSE)
  /\ UNCHANGED <<shared, unloads>>

\* ------------------------------------------------------------- open_bfd
\* The values a read of bfd_init_flag by caller t may return.  The flag is an
\* unsynchronised static int: while another caller is between its own test of
\* the flag and the end of its store (lines 19-21), the read races with that
\* store and may see the flag either clear or already set.
ReadFlag(t) ==
  IF \E u \in Callers \ {t} : pc[u] \in {"bfd_init", "set_flag"}
    THEN {0, 1}
    ELSE {bfd_init_flag}

\* if ( !bfd_init_flag ): on a clear flag the caller enters bfd_init().
InitCheck(t) ==
  /\ pc[t] = "init_check"
  /\ \E v \in ReadFlag(t) :
       IF v = 0
         THEN /\ pc' = Upd(pc, t, "bfd_init")
              /\ init_calls' = init_calls + 1
         ELSE /\ pc' = Upd(pc, t, "openr")
              /\ UNCHANGED init_calls
  /\ UNCHANGED <<bfd_init_flag, init_done, bfd_error, ncalls, args, stale_error, unloads, bin, hvars,
                 rets, symvars, stages, diag>>

\* bfd_init() returns.
BfdInit(t) ==
  /\ pc[t] = "bfd_init"
  /\ init_done' = init_done + 1
  /\ pc' = Upd(pc, t, "set_flag")
  /\ UNCHANGED <<bfd_init_flag, init_calls, bfd_error, ncalls, args, stale_error, unloads, bin, hvars,
                 rets, symvars, stages, diag>>

\* bfd_init_flag = 1.
SetFlag(t) ==
  /\ pc[t] = "set_flag"
  /\ bfd_init_flag' = 1
  /\ pc' = Upd(pc, t, "openr")
  /\ UNCHANGED <<init_calls, init_done, bfd_error, ncalls, args, stale_error, unloads, bin, hvars,
                 rets, symvars, stages, diag>>

\* a) bfd_openr(fname.c_str(), NULL): on failure open_bfd returns NULL and
\* load_binary_bfd goes to fail.
Openr(t) ==
  /\ pc[t] = "openr"
  /\ stages' = Upd(stages, t, Append(stages[t], "open"))
  /\ IF fname[t].openable
       THEN /\ bfd_h' = Upd(bfd_h, t, "handle")
            /\ opened' = Upd(opened, t, opened[t] + 1)
            /\ pc' = Upd(pc, t, "check_format")
            /\ UNCHANGED <<bfd_error, diag>>
       ELSE /\ bfd_error' = "bfd_error_system_call"
            /\ diag' = Upd(diag, t, Append(diag[t], "Failed to open binary"))
            /\ pc' = Upd(pc, t, "fail")
            /\ UNCHANGED <<bfd_h, opened>>
  /\ UNCHANGED <<bfd_init_flag, init_calls, init_done, ncalls, args, stale_error, unloads, bin, closed,
                 rets, symvars>>

\* b) bfd_check_format(bfd_h, bfd_object).  On failure open_bfd returns NULL
\* (line 34) without closing the handle, so load_binary_bfd's bfd_h is NULL.
\* On success some versions of libbfd leave a wrong-format error set.
CheckFormat(t) ==
  /\ pc[t] = "check_format"
  /\ IF fname[t].object
       THEN /\ \E stale \in BOOLEAN :
                 /\ bfd_error' = IF stale THEN "bfd_error_wrong_format" ELSE bfd_error
                 /\ stale_error' = Upd(stale_error, t, stale)
            /\ pc' = Upd(pc, t, "set_error")
            /\ UNCHANGED <<bfd_h, diag>>
       ELSE /\ bfd_error' = "bfd_error_file_not_recognized"
            /\ diag' = Upd(diag, t, Append(diag[t], "does not appear to be an executable"))
            /\ bfd_h' = Upd(bfd_h, t, "NULL")
            /\ pc' = Upd(pc, t, "fail")
            /\ UNCHANGED stale_error
  /\ UNCHANGED <<bfd_init_flag, init_calls, init_done, ncalls, args, unloads, bin, opened,
                 closed, rets, symvars, stages>>

\* A faulty variant of SetError that leaves the error state as it is.
SetError_Missing(t) ==
  /\ pc[t] = "set_error"
  /\ pc' = Upd(pc, t, "get_flavour")
  /\ UNCHANGED <<shared, args, stale_error, unloads, bin, hvars, rets, symvars, stages, diag>>

\* bfd_set_error(bfd_error_no_error).
SetError(t) ==
  /\ pc[t] = "set_error"
  /\ bfd_error' = "bfd_error_no_error"
  /\ pc' = Upd(pc, t, "get_flavour")
  /\ UNCHANGED <<bfd_init_flag, init_calls, init_done, ncalls, args, stale_error, unloads, bin, hvars,
                 rets, symvars, stages, diag>>

\* c) bfd_get_flavour(bfd_h) == bfd_target_unknown_flavour: return NULL
\* (line 47), again without closing; otherwise return bfd_h.
GetFlavour(t) ==
  /\ pc[t] = "get_flavour"
  /\ IF fname[t].flavour = "bfd_target_unknown_flavour"
       THEN /\ diag' = Upd(diag, t, Append(diag[t], "Unrecognized format"))
            /\ bfd_h' = Upd(bfd_h, t, "NULL")
            /\ pc' = Upd(pc, t, "fail")
       ELSE /\ pc' = Upd(pc, t, "general")
            /\ UNCHANGED <<bfd_h, diag>>
  /\ UNCHANGED <<shared, args, stale_error, unloads, bin, opened, closed, rets, symvars, stages>>

\* A faulty variant of General that starts the Binary's symbols afresh.
General_ClearsSymbols(t) ==
  /\ pc[t] = "general"
  /\ bin' = Upd(bin, t, [bin[t] EXCEPT
                           !.filename = fname[t].name,
                           !.entry = fname[t].start,
                           !.type_str = TargetName(fname[t].flavour, fname[t].mach),
                           !.symbols = << >>])
  /\ pc' = Upd(pc, t, "switch_flavour")
  /\ stale_error' = Upd(stale_error, t, FALSE)
  /\ UNCHANGED <<shared, args, unloads, hvars, rets, symvars, stages, diag>>

\* ------------------------------------------------------------- load_binary_bfd
\* a) setting general information (lines 155-159).
General(t) ==
  /\ pc[t] = "general"
  /\ bin' = Upd(bin, t, [bin[t] EXCEPT
                           !.filename = fname[t].name,
                           !.entry = fname[t].start,
                           !.type_str = TargetName(fname[t].flavour, fname[t].mach)])
  /\ pc' = Upd(pc, t, "switch_flavour")
  /\ stale_error' = Upd(stale_error, t, FALSE)
  /\ UNCHANGED <<shared, args, unloads, hvars, rets, symvars, stages, diag>>

\* A faulty variant of TypeOf whose default case settles for ELF.
TypeOf_DefaultElf(flavour) ==
  CASE flavour = "bfd_target_coff_flavour" -> "BIN_TYPE_PE"
    [] OTHER -> "BIN_TYPE_ELF"

\* The switch on xvec -> flavour (lines 161-172): the Binary type of a
\* flavour, or "unsupported" for the default case.
TypeOf(flavour) ==
  CASE flavour = "bfd_target_elf_flavour" -> "BIN_TYPE_ELF"
    [] flavour = "bfd_target_coff_flavour" -> "BIN_TYPE_PE"
    [] OTHER -> "unsupported"

\* A faulty variant of SwitchFlavour that takes the caller's type argument,
\* when it names a type, instead of the detected one.
SwitchFlavour_TrustsCaller(t) ==
  /\ pc[t] = "switch_flavour"
  /\ stages' = Upd(stages, t, Append(stages[t], "container"))
  /\ IF TypeOf(fname[t].flavour) = "unsupported"
       THEN /\ diag' = Upd(diag, t, Append(diag[t], "unsupported binary type"))
            /\ pc' = Upd(pc, t, "fail")
            /\ UNCHANGED bin
       ELSE /\ bin' = Upd(bin, t, [bin[t] EXCEPT !.type =
                         IF type[t] = "BIN_TYPE_AUTO" THEN TypeOf(fname[t].flavour)
                                                      ELSE type[t]])
            /\ pc' = Upd(pc, t, "arch")
            /\ UNCHANGED diag
  /\ UNCHANGED <<shared, args, stale_error, unloads, hvars, rets, symvars>>

\* b) set executable type in bin.
SwitchFlavour(t) ==
  /\ pc[t] = "switch_flavour"
  /\ stages' = Upd(stages, t, Append(stages[t], "container"))
  /\ IF TypeOf(fname[t].flavour) = "unsupported"
       THEN /\ diag' = Upd(diag, t, Append(diag[t], "unsupported binary type"))
            /\ pc' = Upd(pc, t, "fail")
            /\ UNCHANGED bin
       ELSE /\ bin' = Upd(bin, t, [bin[t] EXCEPT !.type = TypeOf(fname[t].flavour)])
            /\ pc' = Upd(pc, t, "arch")
            /\ UNCHANGED diag
  /\ UNCHANGED <<shared, args, stale_error, unloads, hvars, rets, symvars>>

\* A faulty variant of ArchOf that lacks the bfd_mach_x86_64 case, so that
\* 64-bit files fall into the default case.
ArchOf_NoX86_64(mach) ==
  CASE mach = "bfd_mach_i386_i386" -> [arch |-> "ARCH_X86", bits |-> 32]
    [] OTHER -> [arch |-> "unsupported", bits |-> 0]

\* A faulty variant of ArchOf whose default case settles for 32-bit x86
\* instead of failing.
ArchOf_DefaultX86(mach) ==
  CASE mach = "bfd_mach_x86_64" -> [arch |-> "ARCH_X86", bits |-> 64]
    [] OTHER -> [arch |-> "ARCH_X86", bits |-> 32]

\* The switch on bfd_info -> mach (lines 178-190): architecture and bit width
\* of a machine code; bits 0 stands for the default case.
ArchOf(mach) ==
  CASE mach = "bfd_mach_i386_i386" -> [arch |-> "ARCH_X86", bits |-> 32]
    [] mach = "bfd_mach_x86_64" -> [arch |-> "ARCH_X86", bits |-> 64]
    [] OTHER -> [arch |-> "unsupported", bits |-> 0]

\* c) set target architecture in bin (lines 175-190).
Arch(t) ==
  /\ pc[t] = "arch"
  /\ stages' = Upd(stages, t, Append(stages[t], "arch"))
  /\ LET a == ArchOf(fname[t].mach)
         named == [bin[t] EXCEPT !.arch_str = PrintableName(fname[t].mach)]
     IN IF a.arch = "unsupported"
          THEN /\ bin' = Upd(bin, t, named)
               /\ diag' = Upd(diag, t, Append(diag[t], "unsupported architecture"))
               /\ pc' = Upd(pc, t, "fail")
          ELSE /\ bin' = Upd(bin, t, [named EXCEPT !.arch = a.arch, !.bits = a.bits])
               /\ pc' = Upd(pc, t, "symbols")
               /\ UNCHANGED diag
  /\ UNCHANGED <<shared, args, stale_error, unloads, hvars, rets, symvars>>

\* ------------------------------------------------------------- load_symbols_bfd
\* bfd_get_symtab_upper_bound(bfd_h): the bytes needed for the table's
\* pointers and their NULL terminator, 0 when there is no table, negative on
\* error.
bfd_get_symtab_upper_bound(f) ==
  CASE f.sym = "neg" -> -1
    [] f.sym = "zero" -> 0
    [] OTHER -> (Len(f.symtab) + 1) * 8

\* bfd_canonicalize_symtab(bfd_h, bfd_symtab): the number of symbols decoded,
\* negative on error.
bfd_canonicalize_symtab(f) == IF f.canon_ok THEN Len(f.symtab) ELSE -1

\* A faulty variant of IsFunction that keeps every entry.
IsFunction_Any(sym) == TRUE

\* bfd_symtab[i] -> flag & BSF_FUNCTION (line 100).
IsFunction(sym) == "BSF_FUNCTION" \in sym.flag

\* A faulty variant of SizeFailed that takes a size of 0 for an error.
SizeFailed_ZeroIsError(size) == size <= 0

\* A faulty variant of SizeFailed that also consults libbfd's global error
\* state, which another load may have left set.
SizeFailed_ErrorState(size) == size < 0 \/ bfd_error # "bfd_error_no_error"

\* ( n = bfd_get_symtab_upper_bound(bfd_h) ) < 0 (line 80).
SizeFailed(size) == size < 0

\* a) get size of symbol table (lines 77-84): a negative size goes to fail
\* (ret = -1), size 0 skips to ret = 0, both then reach cleanup.
SymBound(t) ==
  /\ pc[t] = "symbols"
  /\ stages' = Upd(stages, t, Append(stages[t], "symbols"))
  /\ bfd_symtab' = Upd(bfd_symtab, t, "NULL")
  /\ LET size == bfd_get_symtab_upper_bound(fname[t])
     IN /\ n' = Upd(n, t, size)
        /\ IF SizeFailed(size)
             THEN /\ bfd_error' = "bfd_error_no_symbols"
                  /\ diag' = Upd(diag, t, Append(diag[t], "Failed to read symtab"))
                  /\ sym_ret' = Upd(sym_ret, t, -1)
                  /\ pc' = Upd(pc, t, "sym_cleanup")
             ELSE /\ UNCHANGED <<bfd_error, diag>>
                  /\ IF size # 0
                       THEN /\ pc' = Upd(pc, t, "sym_malloc")
                            /\ UNCHANGED sym_ret
                       ELSE /\ sym_ret' = Upd(sym_ret, t, 0)
                            /\ pc' = Upd(pc, t, "sym_cleanup")
  /\ UNCHANGED <<bfd_init_flag, init_calls, init_done, ncalls, args, stale_error, unloads, bin, hvars,
                 rets, nsyms, i, mallocs, frees>>

\* b) malloc(n) (lines 86-89); the allocation may fail.
SymMalloc(t) ==
  /\ pc[t] = "sym_malloc"
  /\ \E ok \in BOOLEAN :
       IF ok
         THEN /\ bfd_symtab' = Upd(bfd_symtab, t, "alloc")
              /\ mallocs' = Upd(mallocs, t, mallocs[t] + 1)
              /\ pc' = Upd(pc, t, "sym_canon")
              /\ UNCHANGED <<sym_ret, diag>>
         ELSE /\ diag' = Upd(diag, t, Append(diag[t], "Out of memory"))
              /\ sym_ret' = Upd(sym_ret, t, -1)
              /\ pc' = Upd(pc, t, "sym_cleanup")
              /\ UNCHANGED <<bfd_symtab, mallocs>>
  /\ UNCHANGED <<shared, args, stale_error, unloads, bin, hvars, rets, n, nsyms, i, frees, stages>>

\* c) bfd_canonicalize_symtab (lines 92-96), then the loop starts at i = 0.
SymCanon(t) ==
  /\ pc[t] = "sym_canon"
  /\ LET count == bfd_canonicalize_symtab(fname[t])
     IN /\ nsyms' = Upd(nsyms, t, count)
        /\ IF count < 0
             THEN /\ bfd_error' = "bfd_error_bad_value"
                  /\ diag' = Upd(diag, t, Append(diag[t], "Failed to read symbols table"))
                  /\ sym_ret' = Upd(sym_ret, t, -1)
                  /\ pc' = Upd(pc, t, "sym_cleanup")
                  /\ UNCHANGED i
             ELSE /\ i' = Upd(i, t, 0)
                  /\ pc' = Upd(pc, t, "sym_loop")
                  /\ UNCHANGED <<bfd_error, diag, sym_ret>>
  /\ UNCHANGED <<bfd_init_flag, init_calls, init_done, ncalls, args, stale_error, unloads, bin, hvars,
                 rets, n, bfd_symtab, mallocs, frees, stages>>

\* A faulty variant of SymLoop that gives up, with -1, at the first entry that
\* is not a function, after the entries before it were appended.
SymLoop_FailOnData(t) ==
  /\ pc[t] = "sym_loop"
  /\ IF i[t] < nsyms[t]
       THEN LET sym == fname[t].symtab[i[t] + 1]
            IN IF IsFunction(sym)
                 THEN /\ bin' = Upd(bin, t, [bin[t] EXCEPT !.symbols =
                                   Append(@, Symbol("SYM_TYPE_FUN", sym.name, sym.value))])
                      /\ i' = Upd(i, t, i[t] + 1)
                      /\ UNCHANGED <<pc, sym_ret>>
                 ELSE /\ sym_ret' = Upd(sym_ret, t, -1)
                      /\ pc' = Upd(pc, t, "sym_cleanup")
                      /\ UNCHANGED <<bin, i>>
       ELSE /\ sym_ret' = Upd(sym_ret, t, 0)
            /\ pc' = Upd(pc, t, "sym_cleanup")
            /\ UNCHANGED <<bin, i>>
  /\ UNCHANGED <<shared, args, stale_error, unloads, hvars, rets, n, nsyms, bfd_symtab, mallocs, frees,
                 stages, diag>>

\* d) one iteration of the filter loop (lines 99-108), or its exit to ret = 0.
SymLoop(t) ==
  /\ pc[t] = "sym_loop"
  /\ IF i[t] < nsyms[t]
       THEN /\ LET sym == fname[t].symtab[i[t] + 1]
               IN bin' = Upd(bin, t,
                    IF IsFunction(sym)
                      THEN [bin[t] EXCEPT !.symbols =
                              Append(@, Symbol("SYM_TYPE_FUN", sym.name, sym.value))]
                      ELSE bin[t])
            /\ i' = Upd(i, t, i[t] + 1)
            /\ UNCHANGED <<pc, sym_ret>>
       ELSE /\ sym_ret' = Upd(sym_ret, t, 0)
            /\ pc' = Upd(pc, t, "sym_cleanup")
            /\ UNCHANGED <<bin, i>>
  /\ UNCHANGED <<shared, args, stale_error, unloads, hvars, rets, n, nsyms, bfd_symtab, mallocs, frees,
                 stages, diag>>

\* A faulty variant of AfterSymbols that goes straight to section extraction.
AfterSymbols_SkipDynsym(r) == "sections"

\* A faulty variant of AfterSymbols that treats a symbol failure as fatal.
AfterSymbols_Checked(r) == IF r < 0 THEN "fail" ELSE "dynsym"

\* Where load_binary_bfd goes after load_symbols_bfd returns r (line 193):
\* the return value is discarded.
AfterSymbols(r) == "dynsym"

\* A faulty variant of MustFree that never releases the buffer.
MustFree_Never(p) == FALSE

\* if ( bfd_symtab ) (line 117).
MustFree(p) == p # "NULL"

\* cleanup: free(bfd_symtab) if it was allocated (lines 116-120), and return
\* to load_binary_bfd.
SymCleanup(t) ==
  /\ pc[t] = "sym_cleanup"
  /\ frees' = Upd(frees, t, IF MustFree(bfd_symtab[t]) THEN frees[t] + 1 ELSE frees[t])
  /\ n' = Upd(n, t, 0)
  /\ nsyms' = Upd(nsyms, t, 0)
  /\ i' = Upd(i, t, 0)
  /\ pc' = Upd(pc, t, AfterSymbols(sym_ret[t]))
  /\ UNCHANGED <<shared, args, stale_error, unloads, bin, hvars, rets, bfd_symtab, sym_ret, mallocs,
                 stages, diag>>

\* ------------------------------------------------------------- the later stages
\* load_dynsym_bfd(bfd_h, bin): its status and the function symbols of the
\* dynamic table it appends.
load_dynsym_bfd(f) ==
  CASE f.dyn = "fail" -> [ret |-> -1, symbols |-> <<>>]
    [] f.dyn = "one" -> [ret |-> 0, symbols |-> << Symbol("SYM_TYPE_FUN", "puts", 4198448) >>]
    [] OTHER -> [ret |-> 0, symbols |-> <<>>]

\* load_sections_bfd(bfd_h, bin): its status and the sections it appends.
load_sections_bfd(f) ==
  CASE f.sec = "fail" -> [ret |-> -1, sections |-> <<>>]
    [] f.sec = "one" -> [ret |-> 0, sections |-> << [name |-> ".text", vma |-> 4198400, size |-> 64] >>]
    [] OTHER -> [ret |-> 0, sections |-> <<>>]

\* Where load_binary_bfd goes after load_dynsym_bfd returns r (line 194):
\* the return value is discarded.
AfterDynsym(r) == "sections"

\* e) load dynamic symbols (line 194).
LoadDynsym(t) ==
  /\ pc[t] = "dynsym"
  /\ stages' = Upd(stages, t, Append(stages[t], "dynsym"))
  /\ LET r == load_dynsym_bfd(fname[t])
     IN /\ bin' = Upd(bin, t, [bin[t] EXCEPT !.symbols = @ \o r.symbols])
        /\ dyn_ret' = Upd(dyn_ret, t, r.ret)
        /\ pc' = Upd(pc, t, AfterDynsym(r.ret))
  /\ UNCHANGED <<shared, args, stale_error, unloads, hvars, ret, sec_ret, symvars, diag>>

\* A faulty variant of SectionsFailed that discards the status, as the symbol
\* stages do.
SectionsFailed_Ignored(r) == FALSE

\* if ( load_sections_bfd(bfd_h, bin) < 0 ) goto fail (line 196).
SectionsFailed(r) == r < 0

\* f) load sections (line 196), then ret = 0; goto cleanup (lines 198-199).
LoadSections(t) ==
  /\ pc[t] = "sections"
  /\ stages' = Upd(stages, t, Append(stages[t], "sections"))
  /\ LET r == load_sections_bfd(fname[t])
     IN /\ bin' = Upd(bin, t, [bin[t] EXCEPT !.sections = @ \o r.sections])
        /\ sec_ret' = Upd(sec_ret, t, r.ret)
        /\ IF SectionsFailed(r.ret)
             THEN /\ pc' = Upd(pc, t, "fail")
                  /\ UNCHANGED ret
             ELSE /\ ret' = Upd(ret, t, 0)
                  /\ pc' = Upd(pc, t, "cleanup")
  /\ UNCHANGED <<shared, args, stale_error, unloads, hvars, dyn_ret, symvars, diag>>

\* fail: ret = -1 (lines 201-202), falling through to cleanup.
Fail(t) ==
  /\ pc[t] = "fail"
  /\ ret' = Upd(ret, t, -1)
  /\ pc' = Upd(pc, t, "cleanup")
  /\ UNCHANGED <<shared, args, stale_error, unloads, bin, hvars, dyn_ret, sec_ret, symvars, stages, diag>>

\* if ( bfd_h ) (line 205).
MustClose(h) == h # "NULL"

\* g) cleanup: bfd_close(bfd_h) if bfd_h is set, and return ret to the caller
\* (lines 204-207, 224).
Cleanup(t) ==
  /\ pc[t] = "cleanup"
  /\ IF MustClose(bfd_h[t])
       THEN /\ closed' = Upd(closed, t, closed[t] + 1)
            /\ stages' = Upd(stages, t, Append(stages[t], "release"))
       ELSE UNCHANGED <<closed, stages>>
  /\ pc' = Upd(pc, t, "done")
  /\ UNCHANGED <<shared, args, stale_error, unloads, bin, bfd_h, opened, rets, symvars, diag>>

\* ------------------------------------------------------------- unload_binary
\* A faulty variant of Unload that closes the handle of the last load.
Unload_ClosesHandle(t) ==
  /\ pc[t] \in {"idle", "done"}
  /\ unloads[t] < MaxUnloads
  /\ unloads' = Upd(unloads, t, unloads[t] + 1)
  /\ closed' = Upd(closed, t, closed[t] + 1)
  /\ UNCHANGED <<shared, pc, args, stale_error, bin, bfd_h, opened, rets, symvars,
                 stages, diag>>

\* unload_binary(): returns at once (lines 232-236).  A caller may call it
\* whenever it is not inside load_binary.
Unload(t) ==
  /\ pc[t] \in {"idle", "done"}
  /\ unloads[t] < MaxUnloads
  /\ unloads' = Upd(unloads, t, unloads[t] + 1)
  /\ UNCHANGED <<shared, pc, args, stale_error, bin, hvars, rets, symvars, stages, diag>>

\* ------------------------------------------------------------- specifications
\* One step of caller t inside load_binary.
Step(t) ==
  \/ InitCheck(t) \/ BfdInit(t) \/ SetFlag(t)
  \/ Openr(t) \/ CheckFormat(t) \/ SetError(t) \/ GetFlavour(t)
  \/ General(t) \/ SwitchFlavour(t) \/ Arch(t)
  \/ SymBound(t) \/ SymMalloc(t) \/ SymCanon(t) \/ SymLoop(t) \/ SymCleanup(t)
  \/ LoadDynsym(t) \/ LoadSections(t) \/ Fail(t) \/ Cleanup(t)

\* A single caller issuing load_binary calls one after the other, on any file,
\* with any type argument, into a fresh or a used Binary.
Next ==
  \/ Call(1, Files, BinaryTypes, InitBins)
  \/ Step(1)
  \/ Return(1)
  \/ Unload(1)

Spec == Init /\ [][Next]_vars

\* NumCallers concurrent callers, each on one file per path through the loader.
NextMT ==
  \E t \in Callers :
    \/ Call(t, CoverFiles, CoverTypes, {EmptyBinary})
    \/ Step(t)
    \/ Return(t)
    \/ Unload(t)

SpecMT == Init /\ [][NextMT]_vars

\* ------------------------------------------------------------- properties
\* Stage s has run in caller t's current call.
Ran(t, s) == \E k \in DOMAIN stages[t] : stages[t][k] = s

\* load_binary has returned to caller t.
Returned(t) == pc[t] = "done"

\* load_symbols_bfd has returned in caller t's current call.
SymbolsReturned(t) ==
  Ran(t, "symbols") /\ pc[t] \notin {"sym_malloc", "sym_canon", "sym_loop", "sym_cleanup"}

\* C1: in every load in which bfd_openr succeeds, the handle has been closed
\* exactly once when load_binary returns, and is never closed more often than
\* it was opened.
C1_HandleClosedExactlyOnce ==
  \A t \in Callers :
    /\ closed[t] <= opened[t]
    /\ Returned(t) => closed[t] = opened[t]

\* C2: whenever load_binary returns failure, no field of the caller's Binary
\* has been written by that load.
C2_NoPartialBinaryOnFailure ==
  \A t \in Callers : Returned(t) /\ ret[t] = -1 => bin[t] = bin0[t]

\* C3: for any number of calls by concurrent callers, bfd_init is executed
\* exactly once: never twice, and once by the time a call has returned.
C3_InitExactlyOnce ==
  /\ init_calls <= 1
  /\ \A t \in Callers : Returned(t) => init_calls = 1

Supported(f) ==
  /\ f.openable /\ f.object
  /\ f.flavour \in {"bfd_target_elf_flavour", "bfd_target_coff_flavour"}
  /\ f.mach \in {"bfd_mach_i386_i386", "bfd_mach_x86_64"}

\* C5: whenever load_binary returns 0 the Binary's type is ELF or PE, its
\* architecture X86, its bits 32 or 64 and its entry the handle's start
\* address; and every supported file whose section extraction succeeds makes
\* load_binary return 0.
C5_SuccessIsFullyPopulated ==
  \A t \in Callers :
    Returned(t) =>
      /\ ret[t] = 0 =>
           /\ bin[t].type \in {"BIN_TYPE_ELF", "BIN_TYPE_PE"}
           /\ bin[t].arch = "ARCH_X86"
           /\ bin[t].bits \in {32, 64}
           /\ bin[t].entry = fname[t].start
      /\ Supported(fname[t]) /\ fname[t].sec # "fail" => ret[t] = 0

\* A fresh Binary loaded successfully from a 64-bit ELF file.
C5_Witness ==
  \E t \in Callers :
    /\ Returned(t) /\ ret[t] = 0 /\ bin0[t] = EmptyBinary
    /\ bin[t].type = "BIN_TYPE_ELF" /\ bin[t].bits = 64 /\ bin[t].entry = 4198432

\* C6: for a machine code other than i386 and x86-64 the load never assigns
\* an architecture or a bit width and never runs symbol or section
\* extraction; it fails, and when the architecture stage is reached it fails
\* with the unsupported-architecture diagnostic.
C6_UnsupportedArchitectureFails ==
  \A t \in Callers :
    pc[t] # "idle" /\ fname[t].mach \notin {"bfd_mach_i386_i386", "bfd_mach_x86_64"} =>
      /\ bin[t].arch = bin0[t].arch
      /\ bin[t].bits = bin0[t].bits
      /\ ~Ran(t, "symbols") /\ ~Ran(t, "dynsym") /\ ~Ran(t, "sections")
      /\ pc[t] \notin {"symbols", "dynsym", "sections"}
      /\ Ran(t, "arch") =>
           /\ pc[t] \in {"fail", "cleanup", "done"}
           /\ diag[t] = << "unsupported architecture" >>
      /\ Returned(t) => ret[t] = -1

\* An ELF file for ARM has gone through the architecture stage and the load
\* has returned.
C6_Witness ==
  \E t \in Callers :
    /\ Returned(t) /\ Ran(t, "arch") /\ fname[t].mach = "bfd_mach_arm"
    /\ bin0[t] = EmptyBinary /\ ret[t] = -1

\* The stage at which a file makes load_binary fail ("none" if it loads).
FailureCause(f) ==
  CASE ~f.openable -> "open"
    [] ~f.object -> "format"
    [] f.flavour = "bfd_target_unknown_flavour" -> "flavour"
    [] f.flavour \notin {"bfd_target_elf_flavour", "bfd_target_coff_flavour"} -> "container"
    [] f.mach \notin {"bfd_mach_i386_i386", "bfd_mach_x86_64"} -> "architecture"
    [] f.sec = "fail" -> "sections"
    [] OTHER -> "none"

\* C7: two loads that fail for different causes return different values.
C7_FailureCausesDistinguishable ==
  \A t, u \in Callers :
    /\ Returned(t) /\ Returned(u)
    /\ FailureCause(fname[t]) # "none" /\ FailureCause(fname[u]) # "none"
    /\ FailureCause(fname[t]) # FailureCause(fname[u])
    => ret[t] # ret[u]

\* C8: when static or dynamic symbol extraction has failed, the load still
\* runs every later stage, and returns 0 if section extraction succeeds.
C8_SymbolFailureIsNotFatal ==
  \A t \in Callers :
    /\ SymbolsReturned(t) /\ sym_ret[t] = -1 => pc[t] \notin {"fail"} \/ Ran(t, "sections")
    /\ Returned(t) /\ Ran(t, "symbols") /\ (sym_ret[t] = -1 \/ dyn_ret[t] = -1) =>
         /\ stages[t] = << "open", "container", "arch", "symbols", "dynsym",
                           "sections", "release" >>
         /\ sec_ret[t] >= 0 => ret[t] = 0

\* A load in which both symbol stages failed has returned 0.
C8_Witness ==
  \E t \in Callers :
    Returned(t) /\ sym_ret[t] = -1 /\ dyn_ret[t] = -1 /\ ret[t] = 0

\* C9: whenever load_sections_bfd reports an error, load_binary returns
\* failure.
C9_SectionFailureIsFatal ==
  \A t \in Callers :
    /\ Ran(t, "sections") /\ sec_ret[t] < 0 => pc[t] \in {"fail", "cleanup", "done"}
    /\ Returned(t) /\ Ran(t, "sections") /\ sec_ret[t] < 0 => ret[t] = -1

\* Section extraction failed after every earlier stage succeeded and found
\* symbols, and the load has returned failure.
C9_Witness ==
  \E t \in Callers :
    /\ Returned(t) /\ Ran(t, "sections") /\ sec_ret[t] = -1
    /\ sym_ret[t] = 0 /\ dyn_ret[t] = 0 /\ Len(bin[t].symbols) > Len(bin0[t].symbols)
    /\ ret[t] = -1

\* C10 as stated: a size of 0 makes load_symbols_bfd return 0 without
\* allocating, and the load of such a file into a Binary without symbols,
\* with no dynamic symbols either, succeeds with an empty symbols sequence.
C10_StrippedLoadSucceeds ==
  \A t \in Callers :
    Returned(t) /\ Ran(t, "symbols") /\ bfd_get_symtab_upper_bound(fname[t]) = 0
      /\ bin0[t].symbols = <<>> /\ load_dynsym_bfd(fname[t]).symbols = <<>> =>
        /\ sym_ret[t] = 0 /\ mallocs[t] = 0
        /\ ret[t] = 0
        /\ bin[t].symbols = <<>>

\* C10 as amended: a size of 0 makes load_symbols_bfd return 0 without
\* allocating or appending, and a negative size makes it return -1; the load
\* of a file of size 0 succeeds exactly when section extraction succeeds, and
\* its symbols are those the Binary held before followed by those dynamic
\* extraction appended.
C10_SizeZeroIsNotAnError ==
  \A t \in Callers :
    SymbolsReturned(t) =>
      /\ bfd_get_symtab_upper_bound(fname[t]) < 0 => sym_ret[t] = -1
      /\ bfd_get_symtab_upper_bound(fname[t]) = 0 =>
           /\ sym_ret[t] = 0 /\ mallocs[t] = 0 /\ frees[t] = 0
           /\ pc[t] = "dynsym" => bin[t].symbols = bin0[t].symbols
           /\ Returned(t) =>
                /\ ret[t] = 0 <=> sec_ret[t] >= 0
                /\ bin[t].symbols = bin0[t].symbols \o load_dynsym_bfd(fname[t]).symbols

\* A stripped file loaded successfully into a fresh Binary: no symbols.
C10_Witness ==
  \E t \in Callers :
    /\ Returned(t) /\ Ran(t, "symbols") /\ bfd_get_symtab_upper_bound(fname[t]) = 0
    /\ bin0[t] = EmptyBinary /\ ret[t] = 0 /\ bin[t].symbols = <<>>

\* malloc failed in caller t's current call.
OutOfMemory(t) == \E k \in DOMAIN diag[t] : diag[t][k] = "Out of memory"

C12_UnloadChangesNothing ==
  [][(\E t \in Callers : unloads'[t] = unloads[t] + 1) =>
       UNCHANGED <<shared, pc, args, stale_error, bin, hvars, rets, symvars, stages, diag>>]_vars

\* unload_binary has been called twice after a failed load that left its
\* handle open.
C12_Witness ==
  \E t \in Callers :
    Returned(t) /\ ret[t] = -1 /\ opened[t] = 1 /\ closed[t] = 0 /\ unloads[t] >= 2

\* The Symbols a raw table stands for: its entries flagged BSF_FUNCTION, in
\* the table's order, each with the entry's name and value.
FunctionSymbols(tab) ==
  LET kept == SelectSeq(tab, LAMBDA a : "BSF_FUNCTION" \in a.flag)
  IN [k \in 1 .. Len(kept) |-> Symbol("SYM_TYPE_FUN", kept[k].name, kept[k].value)]

\* C13: the symbols load_symbols_bfd appends are exactly the function-flagged
\* entries of the table, one Symbol each, in the table's order: after i
\* iterations those of the first i entries, at its successful return those of
\* the whole table.
C13_FunctionSymbolsInOrder ==
  \A t \in Callers :
    /\ pc[t] = "sym_loop" =>
         bin[t].symbols = bin0[t].symbols \o FunctionSymbols(SubSeq(fname[t].symtab, 1, i[t]))
    /\ pc[t] = "dynsym" /\ sym_ret[t] = 0 /\ fname[t].sym = "pos" =>
         bin[t].symbols = bin0[t].symbols \o FunctionSymbols(fname[t].symtab)

\* load_symbols_bfd has returned 0 on a table of two entries of which it kept
\* one and dropped the other.
C13_Witness ==
  \E t \in Callers :
    /\ pc[t] = "dynsym" /\ sym_ret[t] = 0 /\ Len(fname[t].symtab) = 2
    /\ Len(bin[t].symbols) = Len(bin0[t].symbols) + 1

\* C14: load_symbols_bfd frees the buffer of the raw table exactly once before
\* it returns whenever it allocated one (decode succeeded or failed), and
\* performs no free when it allocated none (negative size, size 0, failed
\* allocation).
C14_BufferFreedExactlyOnce ==
  \A t \in Callers :
    /\ mallocs[t] <= 1
    /\ frees[t] <= mallocs[t]
    /\ SymbolsReturned(t) => frees[t] = mallocs[t]
    /\ pc[t] \in {"sym_canon", "sym_loop"} => mallocs[t] = 1 /\ frees[t] = 0

\* load_symbols_bfd has returned -1 after a decode failure, with its buffer
\* allocated once and freed once.
C14_Witness ==
  \E t \in Callers :
    /\ SymbolsReturned(t) /\ sym_ret[t] = -1 /\ ~fname[t].canon_ok
    /\ mallocs[t] = 1 /\ frees[t] = 1

\* The stages of a load before the release of the handle, in order.
StageOrder == << "open", "container", "arch", "symbols", "dynsym", "sections" >>

\* C15: the stages of a load run in the order open, container, architecture,
\* static symbols, dynamic symbols, sections, release, each at most once; a
\* stage that sends the load to fail is open, container, architecture or
\* sections, and after it the only stage that still runs is the release.
C15_StagesInFixedOrder ==
  /\ [](\A t \in Callers :
          /\ \E k \in 0 .. Len(StageOrder) :
               \/ stages[t] = SubSeq(StageOrder, 1, k)
               \/ stages[t] = Append(SubSeq(StageOrder, 1, k), "release")
          /\ Ran(t, "release") => pc[t] = "done"
          /\ pc[t] = "fail" =>
               stages[t][Len(stages[t])] \in {"open", "container", "arch", "sections"})
  /\ [][\A t \in Callers :
          pc[t] \in {"fail", "cleanup"} =>
            stages'[t] \in {stages[t], Append(stages[t], "release")}]_vars

\* A load whose architecture stage failed has returned after running open,
\* container, architecture and the release, and nothing else.
C15_Witness ==
  \E t \in Callers :
    Returned(t) /\ ret[t] = -1 /\ stages[t] = << "open", "container", "arch", "release" >>

\* C16: once the flavour switch has run, an ELF-flavour handle has type ELF
\* and a COFF-flavour handle type PE; any other flavour leaves the type
\* unassigned and fails with the unsupported-type diagnostic without reaching
\* the architecture stage; a handle of unknown flavour never reaches the
\* switch.
C16_TypeFollowsFlavour ==
  \A t \in Callers :
    Ran(t, "container") =>
      /\ fname[t].flavour # "bfd_target_unknown_flavour"
      /\ fname[t].flavour = "bfd_target_elf_flavour" => bin[t].type = "BIN_TYPE_ELF"
      /\ fname[t].flavour = "bfd_target_coff_flavour" => bin[t].type = "BIN_TYPE_PE"
      /\ fname[t].flavour \notin {"bfd_target_elf_flavour", "bfd_target_coff_flavour"} =>
           /\ bin[t].type = bin0[t].type
           /\ ~Ran(t, "arch") /\ pc[t] \in {"fail", "cleanup", "done"}
           /\ diag[t] = << "unsupported binary type" >>
           /\ Returned(t) => ret[t] = -1

\* An a.out-flavour object has gone through the flavour switch and the load
\* has returned failure.
C16_Witness ==
  \E t \in Callers :
    /\ Returned(t) /\ Ran(t, "container") /\ ret[t] = -1
    /\ fname[t].flavour = "bfd_target_aout_flavour"

\* C17: when open_bfd returns a handle, libbfd's error state is 'no error',
\* even if the format check left a stale error; after a failed format check
\* the error it set is still there.
C17_ErrorClearedOnSuccess ==
  \A t \in Callers :
    /\ pc[t] = "general" => bfd_error = "bfd_error_no_error"
    /\ pc[t] \in {"fail", "cleanup", "done"}
         /\ diag[t] = << "does not appear to be an executable" >> =>
           bfd_error = "bfd_error_file_not_recognized"

\* open_bfd is returning a handle after a format check that left a stale
\* error, and the error state is clear.
C17_Witness ==
  \E t \in Callers :
    pc[t] = "general" /\ stale_error[t] /\ bfd_error = "bfd_error_no_error"

C19_FailedExtractionAddsNothing ==
  \A t \in Callers :
    SymbolsReturned(t) /\ sym_ret[t] = -1 =>
      /\ pc[t] = "dynsym" => bin[t].symbols = bin0[t].symbols
      /\ Returned(t) /\ Ran(t, "dynsym") =>
           bin[t].symbols = bin0[t].symbols \o load_dynsym_bfd(fname[t]).symbols

\* load_symbols_bfd returned -1 for a file whose table holds entries, into a
\* Binary that already held symbols.
C19_Witness ==
  \E t \in Callers :
    /\ pc[t] = "dynsym" /\ sym_ret[t] = -1
    /\ fname[t].symtab # << >> /\ bin0[t].symbols # << >>
    /\ bin[t].symbols = bin0[t].symbols

\* The sequence s is a prefix of the sequence q.
IsPrefix(s, q) == Len(s) <= Len(q) /\ SubSeq(q, 1, Len(s)) = s

\* C20: at every point of a load, the symbols the Binary was passed in with are
\* a prefix of the symbols it holds.
C20_SymbolsOnlyAppend ==
  \A t \in Callers :
    pc[t] # "idle" => IsPrefix(bin0[t].symbols, bin[t].symbols)

\* A load into a Binary that already held symbols returned with more of them.
C20_Witness ==
  \E t \in Callers :
    /\ Returned(t) /\ bin0[t].symbols # << >>
    /\ Len(bin[t].symbols) > Len(bin0[t].symbols)
    /\ IsPrefix(bin0[t].symbols, bin[t].symbols)

====
